---- MODULE Spec2Model ----
(***************************************************************************)
(* Task Manager CLI (src/main.rs): a flat-file task list.  Every process   *)
(* invocation prints a header, parses its command line, loads tasks.json,  *)
(* runs one of add / list / complete / remove, and exits.  The store file  *)
(* is the only state shared between invocations.                           *)
(***************************************************************************)
EXTENDS Integers, Sequences, FiniteSets, TLC

\* Longest task list the model lets `add` build (Vec<Task> is unbounded).
MaxLen == 2

\* Invocations that may be alive at once (operating-system processes).
Procs == {1, 2}

\* ------------------------------------------------------------------ data

DQ == "\""
BS == "\\"

\* Text is a sequence of characters.  The description alphabet holds a plain
\* character and the two characters JSON has to escape.
Descriptions == {<<"a">>, <<DQ, BS>>}

\* struct Task { description: String, completed: bool }
Task(d, c) == [description |-> d, completed |-> c]

Tasks == {Task(d, c) : d \in Descriptions, c \in BOOLEAN}

RECURSIVE TaskSeqs(_)
TaskSeqs(n) ==
    IF n = 0 THEN {<< >>}
    ELSE LET shorter == TaskSeqs(n - 1)
         IN  shorter \cup {Append(s, t) : s \in {x \in shorter : Len(x) = n - 1}, t \in Tasks}

\* ------------------------------------------------------- JSON, as tokens
\* The content of tasks.json is modelled as the JSON text's sequence of
\* lexical tokens (white space, which from_str skips and to_string_pretty
\* only adds between tokens, is left out).  A string token carries the raw
\* characters between its quotes, escapes included.

Tok(t, s) == [t |-> t, s |-> s]
LBracket == Tok("[", << >>)
RBracket == Tok("]", << >>)
LBrace == Tok("{", << >>)
RBrace == Tok("}", << >>)
Comma == Tok(",", << >>)
Colon == Tok(":", << >>)
StrTok(raw) == Tok("str", raw)
BoolTok(b) == Tok(IF b THEN "true" ELSE "false", << >>)

DescriptionKey == <<"d", "e", "s", "c", "r", "i", "p", "t", "i", "o", "n">>
CompletedKey == <<"c", "o", "m", "p", "l", "e", "t", "e", "d">>

\* A string writer that escapes the quote only.
EscapeChar_quote_only(c) == IF c = DQ THEN <<BS, DQ>> ELSE <<c>>

\* serde_json's string writer: '"' and '\' are written behind a backslash.
EscapeChar(c) ==
    IF c = DQ THEN <<BS, DQ>> ELSE IF c = BS THEN <<BS, BS>> ELSE <<c>>

RECURSIVE Escape(_)
Escape(s) ==
    IF s = << >> THEN << >> ELSE EscapeChar(Head(s)) \o Escape(Tail(s))

\* serde_json's string reader on the raw characters of a string token: a
\* backslash must be followed by an escapable character; a bare quote cannot
\* occur inside a string.
RECURSIVE Unescape(_)
Unescape(raw) ==
    IF raw = << >> THEN [ok |-> TRUE, s |-> << >>]
    ELSE IF Head(raw) = DQ THEN [ok |-> FALSE, s |-> << >>]
    ELSE IF Head(raw) = BS
         THEN IF Len(raw) < 2 \/ raw[2] \notin {DQ, BS}
              THEN [ok |-> FALSE, s |-> << >>]
              ELSE LET r == Unescape(SubSeq(raw, 3, Len(raw)))
                   IN  [ok |-> r.ok, s |-> IF r.ok THEN <<raw[2]>> \o r.s ELSE << >>]
    ELSE LET r == Unescape(Tail(raw))
         IN  [ok |-> r.ok, s |-> IF r.ok THEN <<Head(raw)>> \o r.s ELSE << >>]

\* #[derive(Serialize)] for Task: the fields in declaration order.
SerializeTask(t) ==
    << LBrace, StrTok(Escape(DescriptionKey)), Colon, StrTok(Escape(t.description)), Comma,
       StrTok(Escape(CompletedKey)), Colon, BoolTok(t.completed), RBrace >>

RECURSIVE SerializeElems(_)
SerializeElems(ts) ==
    IF ts = << >> THEN << >>
    ELSE IF Len(ts) = 1 THEN SerializeTask(ts[1])
    ELSE SerializeTask(Head(ts)) \o <<Comma>> \o SerializeElems(Tail(ts))

\* serde_json::to_string_pretty(tasks)
to_string_pretty(ts) == <<LBracket>> \o SerializeElems(ts) \o <<RBracket>>

ParseErr == [ok |-> FALSE, tasks |-> << >>]
MemberErr == [ok |-> FALSE, next |-> 0, d |-> << >>, c |-> FALSE]

\* #[derive(Deserialize)] without #[serde(default)]: `completed` defaults to false
MissingField_defaulted(dSet, cSet) == ~dSet

\* #[derive(Deserialize)] for Task: a field that did not occur is an error.
MissingField(dSet, cSet) == ~dSet \/ ~cSet

\* #[derive(Deserialize)] for Task, on the members of an object that starts
\* before position i: the two fields in any order, each at most once, both
\* required; a member with another key is skipped.
RECURSIVE ParseMembers(_, _, _, _, _, _)
ParseMembers(toks, i, dSet, dVal, cSet, cVal) ==
    IF i + 3 > Len(toks) \/ toks[i].t # "str" \/ toks[i + 1] # Colon THEN MemberErr
    ELSE LET key == Unescape(toks[i].s)
             val == toks[i + 2]
             str == IF val.t = "str" THEN Unescape(val.s) ELSE [ok |-> FALSE, s |-> << >>]
             isD == key.s = DescriptionKey
             isC == key.s = CompletedKey
             valOk == IF isD THEN str.ok
                      ELSE IF isC THEN val.t \in {"true", "false"}
                      ELSE str.ok \/ val.t \in {"true", "false"}
             dup == (isD /\ dSet) \/ (isC /\ cSet)
             dSet2 == dSet \/ isD
             cSet2 == cSet \/ isC
             dVal2 == IF isD THEN str.s ELSE dVal
             cVal2 == IF isC THEN val.t = "true" ELSE cVal
         IN  IF ~key.ok \/ ~valOk \/ dup THEN MemberErr
             ELSE IF toks[i + 3] = Comma
                  THEN ParseMembers(toks, i + 4, dSet2, dVal2, cSet2, cVal2)
             ELSE IF toks[i + 3] = RBrace /\ ~MissingField(dSet2, cSet2)
                  THEN [ok |-> TRUE, next |-> i + 4, d |-> dVal2, c |-> cVal2]
             ELSE MemberErr

\* The elements of the array, from position i, after those in acc.
RECURSIVE ParseElems(_, _, _)
ParseElems(toks, i, acc) ==
    IF i > Len(toks) \/ toks[i] # LBrace THEN ParseErr
    ELSE LET m == ParseMembers(toks, i + 1, FALSE, << >>, FALSE, FALSE)
         IN  IF ~m.ok \/ m.next > Len(toks) THEN ParseErr
             ELSE IF toks[m.next] = Comma
                  THEN ParseElems(toks, m.next + 1, Append(acc, Task(m.d, m.c)))
             ELSE IF toks[m.next] = RBracket /\ m.next = Len(toks)
                  THEN [ok |-> TRUE, tasks |-> Append(acc, Task(m.d, m.c))]
             ELSE ParseErr

\* serde_json::from_str::<Vec<Task>>(text)
from_str(toks) ==
    IF Len(toks) < 2 \/ toks[1] # LBracket THEN ParseErr
    ELSE IF toks[2] = RBracket
         THEN IF Len(toks) = 2 THEN [ok |-> TRUE, tasks |-> << >>] ELSE ParseErr
    ELSE ParseElems(toks, 2, << >>)

\* ----------------------------------------------------------- the store

Absent == [exists |-> FALSE, content |-> << >>]
FileOf(toks) == [exists |-> TRUE, content |-> toks]

\* fn load_tasks() -> Vec<Task>, on the store file f
load_tasks(f) ==
    IF f.exists
    THEN LET r == from_str(f.content) IN IF r.ok THEN r.tasks ELSE << >>
    ELSE << >>

\* A write that appends to the file instead of replacing it.
WriteOutcomes_append(old, toks) ==
    {[ok |-> TRUE, file |-> FileOf(old.content \o toks)], [ok |-> FALSE, file |-> old]}

\* What fs::write("tasks.json", text) can leave behind: the whole text (Ok);
\* or, on an Err, the old file (it could not be opened) or a file cut short
\* after any number of tokens (opened and truncated, then the write failed).
WriteOutcomes(old, toks) ==
    {[ok |-> TRUE, file |-> FileOf(toks)], [ok |-> FALSE, file |-> old]}
        \cup {[ok |-> FALSE, file |-> FileOf(SubSeq(toks, 1, k))] : k \in 0..(Len(toks) - 1)}

\* Store contents no Vec<Task> can be read from: an empty file, an object
\* instead of an array, an unclosed array, a task without its `completed`
\* field, a description with an escape JSON does not have.
Malformed ==
    { << >>,
      <<LBrace, RBrace>>,
      <<LBracket>>,
      <<LBracket, LBrace, StrTok(DescriptionKey), Colon, StrTok(<<"a">>), RBrace, RBracket>>,
      <<LBracket, LBrace, StrTok(DescriptionKey), Colon, StrTok(<<BS, "a">>), Comma,
        StrTok(CompletedKey), Colon, BoolTok(FALSE), RBrace, RBracket>> }

\* A store some other writer produced: the fields in the other order, and a
\* member the program does not know.
Foreign ==
    { <<LBracket, LBrace, StrTok(CompletedKey), Colon, BoolTok(TRUE), Comma,
        StrTok(<<"x">>), Colon, BoolTok(TRUE), Comma,
        StrTok(DescriptionKey), Colon, StrTok(<<"a">>), RBrace, RBracket>> }

InitFiles ==
    {Absent} \cup {FileOf(c) : c \in Malformed \cup Foreign}
        \cup {FileOf(to_string_pretty(ts)) : ts \in TaskSeqs(MaxLen)}

\* ------------------------------------------------------- command lines

Arg(cmd, text, hasFilter, filter) ==
    [cmd |-> cmd, text |-> text, hasFilter |-> hasFilter, filter |-> filter]

NoArg == Arg("", << >>, FALSE, "")

DigitVal ==
    [c \in {"0", "1", "2", "3", "4", "5", "6", "7", "8", "9"} |->
        CASE c = "0" -> 0 [] c = "1" -> 1 [] c = "2" -> 2 [] c = "3" -> 3 [] c = "4" -> 4
          [] c = "5" -> 5 [] c = "6" -> 6 [] c = "7" -> 7 [] c = "8" -> 8 [] c = "9" -> 9]

DigitChar(n) == CHOOSE c \in DOMAIN DigitVal : DigitVal[c] = n

\* The <id> arguments tried: every one-digit id from 0 to one past the longest
\* list, a negative number, a signed number, a word and the empty string.
IdArgs ==
    {<<DigitChar(n)>> : n \in 0..(MaxLen + 1)}
        \cup {<<"-", "1">>, <<"+", "1">>, <<"x">>, << >>}

\* The values of --filter tried: absent, the two known ones and another.
Filters ==
    {Arg("list", << >>, FALSE, ""), Arg("list", << >>, TRUE, "pending"),
     Arg("list", << >>, TRUE, "completed"), Arg("list", << >>, TRUE, "done")}

\* What clap's get_matches() hands to main: a subcommand with its argument,
\* or no subcommand.  (A command line clap itself rejects ends the process
\* inside get_matches(), before the store is read.)
Argvs ==
    {Arg("add", d, FALSE, "") : d \in Descriptions}
        \cup Filters
        \cup {Arg(c, s, FALSE, "") : c \in {"complete", "remove"}, s \in IdArgs}
        \cup {NoArg}

RECURSIVE DigitsValue(_, _)
DigitsValue(s, acc) ==
    IF s = << >> THEN acc ELSE DigitsValue(Tail(s), 10 * acc + DigitVal[Head(s)])

\* A parse that takes whatever is no number for 0, as .unwrap_or(0) would.
ParseUsize_or_zero(s) ==
    LET digits == IF Len(s) > 1 /\ s[1] = "+" THEN Tail(s) ELSE s
    IN  IF digits # << >> /\ \A i \in 1..Len(digits) : digits[i] \in DOMAIN DigitVal
        THEN [ok |-> TRUE, v |-> DigitsValue(digits, 0)]
        ELSE [ok |-> TRUE, v |-> 0]

\* str::parse::<usize>(): an optional '+' and then decimal digits only; the
\* empty string, a lone sign and a '-' are errors.  (The arguments tried are
\* too short to overflow 64 bits.)
ParseUsize(s) ==
    LET digits == IF Len(s) > 1 /\ s[1] = "+" THEN Tail(s) ELSE s
    IN  IF digits # << >> /\ \A i \in 1..Len(digits) : digits[i] \in DOMAIN DigitVal
        THEN [ok |-> TRUE, v |-> DigitsValue(digits, 0)]
        ELSE [ok |-> FALSE, v |-> 0]

\* --------------------------------------------------------------- output

\* A printed line: the format string and what fills its placeholders.
Line(fmt, n, d, s) == [fmt |-> fmt, n |-> n, d |-> d, s |-> s]
Msg(fmt) == Line(fmt, 0, << >>, "")

Header == Msg("{\n")
Closing == Msg("\n}")
NoTasksFound == Msg("No tasks found.")
InvalidTaskId == Msg("Invalid task ID.")
InvalidId == Msg("Invalid ID.")
InvalidCommand == Msg("Invalid command.")
ErrorSaving == Msg("Error saving tasks.")
Added(d) == Line("Task '{}' added successfully!", 0, d, "")
Completed(id) == Line("Task {} marked as completed!", id, << >>, "")
Removed(d) == Line("Task '{}' removed successfully!", 0, d, "")
Listed(n, t) == Line("{}. {} ({})", n, t.description, IF t.completed THEN "Completed" ELSE "Pending")

\* ---------------------------------------------------------- operations
\* Each operation gives the new in-memory list, whether it calls save_tasks,
\* and what it prints (the confirmation is printed after the save).

Result(ts, save, lines) == [tasks |-> ts, save |-> save, out |-> lines]

\* The closure of list_tasks' .filter()
Keeps(filter, t) ==
    CASE filter = "pending" -> ~t.completed
      [] filter = "completed" -> t.completed
      [] OTHER -> TRUE

RECURSIVE FilterTasks(_, _)
FilterTasks(ts, filter) ==
    IF ts = << >> THEN << >>
    ELSE (IF Keeps(filter, Head(ts)) THEN <<Head(ts)>> ELSE << >>)
             \o FilterTasks(Tail(ts), filter)

\* A listing numbered from 0: `index` instead of `index + 1`.
list_tasks_from_zero(ts, hasFilter, filter) ==
    LET f == IF hasFilter THEN filter ELSE ""
        filtered_tasks == FilterTasks(ts, f)
    IN  Result(ts, FALSE,
               IF filtered_tasks = << >> THEN <<NoTasksFound>>
               ELSE [index \in 1..Len(filtered_tasks) |-> Listed(index - 1, filtered_tasks[index])])

\* fn list_tasks(tasks, filter)
list_tasks(ts, hasFilter, filter) ==
    LET f == IF hasFilter THEN filter ELSE ""
        filtered_tasks == FilterTasks(ts, f)
    IN  Result(ts, FALSE,
               IF filtered_tasks = << >> THEN <<NoTasksFound>>
               ELSE [index \in 1..Len(filtered_tasks) |-> Listed(index, filtered_tasks[index])])

\* An add that puts the new task first: insert(0, ..) instead of push(..).
add_task_in_front(ts, description) ==
    Result(<<Task(description, FALSE)>> \o ts, TRUE, <<Added(description)>>)

\* fn add_task(tasks, description)
add_task(ts, description) ==
    Result(Append(ts, Task(description, FALSE)), TRUE, <<Added(description)>>)

\* A range check that stops one short: `id < tasks.len()`.
mark_task_as_completed_short(ts, id) ==
    IF id > 0 /\ id < Len(ts)
    THEN Result([ts EXCEPT ![id].completed = TRUE], TRUE, <<Completed(id)>>)
    ELSE Result(ts, FALSE, <<InvalidTaskId>>)

\* fn mark_task_as_completed(tasks, id)
mark_task_as_completed(ts, id) ==
    IF id > 0 /\ id <= Len(ts)
    THEN Result([ts EXCEPT ![id].completed = TRUE], TRUE, <<Completed(id)>>)
    ELSE Result(ts, FALSE, <<InvalidTaskId>>)

\* Vec::remove(index), index counted from 0
VecRemove(ts, index) == SubSeq(ts, 1, index) \o SubSeq(ts, index + 2, Len(ts))

\* A remove that saves after the if/else, so on an invalid id too.
remove_task_saves_always(ts, id) ==
    IF id > 0 /\ id <= Len(ts)
    THEN Result(VecRemove(ts, id - 1), TRUE, <<Removed(ts[id].description)>>)
    ELSE Result(ts, TRUE, <<InvalidTaskId>>)

\* A remove that drops the last task, pop(), whatever the id.
remove_task_pops(ts, id) ==
    IF id > 0 /\ id <= Len(ts)
    THEN Result(SubSeq(ts, 1, Len(ts) - 1), TRUE, <<Removed(ts[id].description)>>)
    ELSE Result(ts, FALSE, <<InvalidTaskId>>)

\* fn remove_task(tasks, id)
remove_task(ts, id) ==
    IF id > 0 /\ id <= Len(ts)
    THEN Result(VecRemove(ts, id - 1), TRUE, <<Removed(ts[id].description)>>)
    ELSE Result(ts, FALSE, <<InvalidTaskId>>)

\* ---------------------------------------------------------------- state

VARIABLES
    file,       \* tasks.json: whether it exists, and its content
    pc,         \* per process: "idle" (not started), "loaded" (main has run
                \* up to and including load_tasks()), "done" (about to exit)
    argv,       \* per process: its command line, as clap parsed it
    tasks,      \* per process: main's `tasks`
    out,        \* per process: the lines written to standard output
    err,        \* per process: the lines written to the error stream
    code,       \* per process: the exit code (read when pc is "done")
    loaded,     \* per process: what load_tasks() returned (history)
    file0,      \* per process: the store as load_tasks() found it (history)
    wrote,      \* per process: "no" (fs::write not called), "ok", "failed" (history)
    overlapped, \* per process: another process saved since this one loaded (history)
    lastSaved   \* the list given to the last fs::write and the process that made
                \* it, if the file is what that write produced (history)

vars == <<file, pc, argv, tasks, out, err, code, loaded, file0, wrote, overlapped, lastSaved>>

NothingSaved == [ok |-> FALSE, tasks |-> << >>, by |-> 0]

Fresh ==
    /\ pc = [p \in Procs |-> "idle"]
    /\ argv = [p \in Procs |-> NoArg]
    /\ tasks = [p \in Procs |-> << >>]
    /\ out = [p \in Procs |-> << >>]
    /\ err = [p \in Procs |-> << >>]
    /\ code = [p \in Procs |-> 0]
    /\ loaded = [p \in Procs |-> << >>]
    /\ file0 = [p \in Procs |-> Absent]
    /\ wrote = [p \in Procs |-> "no"]
    /\ overlapped = [p \in Procs |-> FALSE]
    /\ lastSaved = NothingSaved

Init == file \in InitFiles /\ Fresh

\* main, lines 95-132: the header, the command line, load_tasks().  An `add`
\* is started only while the list it would build stays within MaxLen.
Begin(p, a) ==
    /\ pc[p] = "idle"
    /\ \E ts \in {load_tasks(file)} :
           /\ a.cmd = "add" => Len(ts) < MaxLen
           /\ tasks' = [tasks EXCEPT ![p] = ts]
           /\ loaded' = [loaded EXCEPT ![p] = ts]
    /\ pc' = [pc EXCEPT ![p] = "loaded"]
    /\ argv' = [argv EXCEPT ![p] = a]
    /\ file0' = [file0 EXCEPT ![p] = file]
    /\ out' = [out EXCEPT ![p] = <<Header>>]
    /\ err' = [err EXCEPT ![p] = << >>]
    /\ code' = [code EXCEPT ![p] = 0]
    /\ wrote' = [wrote EXCEPT ![p] = "no"]
    /\ overlapped' = [overlapped EXCEPT ![p] = FALSE]
    /\ UNCHANGED <<file, lastSaved>>

\* The process reaches its end with these lines printed and this exit code.
Finish(p, ts, o, e, c) ==
    /\ pc' = [pc EXCEPT ![p] = "done"]
    /\ tasks' = [tasks EXCEPT ![p] = ts]
    /\ out' = [out EXCEPT ![p] = out[p] \o o]
    /\ err' = [err EXCEPT ![p] = err[p] \o e]
    /\ code' = [code EXCEPT ![p] = c]
    /\ UNCHANGED <<argv, loaded, file0>>

\* fn save_tasks(tasks), then the caller's confirmation and main's closing
\* line; .expect("Error saving tasks.") panics on a failed write (exit 101).
save_tasks(p, ts, confirmation) ==
    \E w \in WriteOutcomes(file, to_string_pretty(ts)) :
        /\ file' = w.file
        /\ wrote' = [wrote EXCEPT ![p] = IF w.ok THEN "ok" ELSE "failed"]
        /\ overlapped' = [q \in Procs |-> overlapped[q] \/ (w.ok /\ q # p /\ pc[q] = "loaded")]
        /\ lastSaved' = IF w.ok THEN [ok |-> TRUE, tasks |-> ts, by |-> p]
                        ELSE IF w.file = file THEN lastSaved
                        ELSE NothingSaved
        /\ IF w.ok
           THEN Finish(p, ts, confirmation \o <<Closing>>, << >>, 0)
           ELSE Finish(p, ts, << >>, <<ErrorSaving>>, 101)

\* The rest of an operation that returned r: the save if it makes one, its
\* output, and main's closing line.
Complete(p, r) ==
    IF r.save
    THEN save_tasks(p, r.tasks, r.out)
    ELSE /\ Finish(p, r.tasks, r.out \o <<Closing>>, << >>, 0)
         /\ UNCHANGED <<file, wrote, overlapped, lastSaved>>

\* process::exit(1) after a diagnostic on the error stream
Abort(p, diagnostic) ==
    /\ Finish(p, tasks[p], << >>, <<diagnostic>>, 1)
    /\ UNCHANGED <<file, wrote, overlapped, lastSaved>>

\* An add that reads the store again before it appends.
ExecAdd_reloads(p) ==
    /\ pc[p] = "loaded"
    /\ argv[p].cmd = "add"
    /\ Complete(p, add_task(load_tasks(file), argv[p].text))

\* main: Some(("add", sub_m))
ExecAdd(p) ==
    /\ pc[p] = "loaded"
    /\ argv[p].cmd = "add"
    /\ Complete(p, add_task(tasks[p], argv[p].text))

\* main: Some(("list", sub_m))
ExecList(p) ==
    /\ pc[p] = "loaded"
    /\ argv[p].cmd = "list"
    /\ Complete(p, list_tasks(tasks[p], argv[p].hasFilter, argv[p].filter))

\* main: Some(("complete", sub_m))
ExecComplete(p) ==
    /\ pc[p] = "loaded"
    /\ argv[p].cmd = "complete"
    /\ LET id == ParseUsize(argv[p].text)
       IN  IF id.ok THEN Complete(p, mark_task_as_completed(tasks[p], id.v))
           ELSE Abort(p, InvalidId)

\* main: Some(("remove", sub_m))
ExecRemove(p) ==
    /\ pc[p] = "loaded"
    /\ argv[p].cmd = "remove"
    /\ LET id == ParseUsize(argv[p].text)
       IN  IF id.ok THEN Complete(p, remove_task(tasks[p], id.v))
           ELSE Abort(p, InvalidId)

\* main: the `_` arm (no subcommand)
ExecInvalid(p) ==
    /\ pc[p] = "loaded"
    /\ argv[p].cmd = ""
    /\ Abort(p, InvalidCommand)

\* The process is gone, and what it held in memory with it.
Exit(p) ==
    /\ pc[p] = "done"
    /\ pc' = [pc EXCEPT ![p] = "idle"]
    /\ argv' = [argv EXCEPT ![p] = NoArg]
    /\ tasks' = [tasks EXCEPT ![p] = << >>]
    /\ out' = [out EXCEPT ![p] = << >>]
    /\ err' = [err EXCEPT ![p] = << >>]
    /\ code' = [code EXCEPT ![p] = 0]
    /\ loaded' = [loaded EXCEPT ![p] = << >>]
    /\ file0' = [file0 EXCEPT ![p] = Absent]
    /\ wrote' = [wrote EXCEPT ![p] = "no"]
    /\ overlapped' = [overlapped EXCEPT ![p] = FALSE]
    /\ UNCHANGED <<file, lastSaved>>

Exec(p) ==
    \/ ExecAdd(p)
    \/ ExecList(p)
    \/ ExecComplete(p)
    \/ ExecRemove(p)
    \/ ExecInvalid(p)

\* One invocation at a time, as the program is meant to be used: a process
\* starts only when no other is alive.
Alone(p) == \A q \in Procs \ {p} : pc[q] = "idle"

Next ==
    \E p \in Procs :
        \/ \E a \in Argvs : Alone(p) /\ Begin(p, a)
        \/ Exec(p)
        \/ Exit(p)

Spec == Init /\ [][Next]_vars

\* Invocations that overlap: any process may start while another is alive.
\* Each process makes one invocation, and the disk does not fail.
HealthyDisk == \A p \in Procs : wrote[p] # "failed"

\* (Processes are interchangeable: they start in the order of their numbers.)
InOrder(p) == \A q \in Procs : q < p => pc[q] # "idle"

NextOverlap ==
    \E p \in Procs :
        \/ \E a \in Argvs : InOrder(p) /\ Begin(p, a)
        \/ Exec(p) /\ HealthyDisk'

SpecOverlap == Init /\ [][NextOverlap]_vars

\* ------------------------------------------------------------- properties
\* Stated on a process that has finished its operation (pc = "done"), from
\* what it loaded (loaded, file0) and what it holds and printed at the end.

Ran(p, cmd) == pc[p] = "done" /\ argv[p].cmd = cmd
RanById(p) == Ran(p, "complete") \/ Ran(p, "remove")

IsDigits(s) == s # << >> /\ \A i \in 1..Len(s) : s[i] \in {"0", "1", "2", "3", "4", "5", "6", "7", "8", "9"}

\* The argument is an unsigned decimal number, the id the operation is given.
IsUnsigned(s) == IsDigits(s) \/ (Len(s) > 1 /\ s[1] = "+" /\ IsDigits(Tail(s)))
IsNegative(s) == Len(s) > 1 /\ s[1] = "-" /\ IsDigits(Tail(s))
Magnitude(s) == DigitsValue(IF s[1] \in {"+", "-"} THEN Tail(s) ELSE s, 0)
IdGiven(p) == Magnitude(argv[p].text)

InRange(p) == IsUnsigned(argv[p].text) /\ 1 <= IdGiven(p) /\ IdGiven(p) <= Len(loaded[p])
OutOfRange(p) == IsUnsigned(argv[p].text) /\ ~InRange(p)

Untouched(p) == tasks[p] = loaded[p] /\ file = file0[p] /\ wrote[p] = "no"

\* The file exists and holds no array of tasks: one of the malformed
\* contents, or a text cut short (the closing bracket is the last token of
\* every complete text).
Unreadable(f) ==
    /\ f.exists
    /\ \/ f.content \in Malformed
       \/ f.content = << >>
       \/ f.content[Len(f.content)] # RBracket

\* C1 as stated: complete(id) and remove(id) change the task sequence if and
\* only if 1 <= id <= N; outside that range memory and file are unchanged, no
\* save is made and "Invalid task ID." is printed.
C1_Original ==
    \A p \in Procs :
        RanById(p) /\ IsUnsigned(argv[p].text) =>
            /\ (tasks[p] # loaded[p]) <=> InRange(p)
            /\ OutOfRange(p) => Untouched(p) /\ out[p] = <<Header, InvalidTaskId, Closing>>

\* C1 amended: complete(id) and remove(id) take the mutating path (they call
\* save) if and only if 1 <= id <= N; remove then always changes the sequence,
\* complete changes it exactly when the task at id was still pending; outside
\* the range memory and file are unchanged, no save is made and
\* "Invalid task ID." is printed.
C1_Amended ==
    \A p \in Procs :
        RanById(p) /\ IsUnsigned(argv[p].text) =>
            /\ (wrote[p] # "no") <=> InRange(p)
            /\ Ran(p, "remove") => ((tasks[p] # loaded[p]) <=> InRange(p))
            /\ Ran(p, "complete") =>
                   ((tasks[p] # loaded[p]) <=> (InRange(p) /\ ~loaded[p][IdGiven(p)].completed))
            /\ OutOfRange(p) => Untouched(p) /\ out[p] = <<Header, InvalidTaskId, Closing>>

\* complete(id) of a task that is completed already: saved, and nothing changed
C1_Witness ==
    \E p \in Procs :
        Ran(p, "complete") /\ InRange(p) /\ wrote[p] = "ok" /\ tasks[p] = loaded[p]

\* C2 as stated: complete/remove with an id out of range, 0 or a negative
\* number included, leaves the list unchanged, emits an invalid-id message and
\* the process ends with exit code 0.
C2_Original ==
    \A p \in Procs :
        RanById(p) /\ (OutOfRange(p) \/ IsNegative(argv[p].text)) =>
            /\ tasks[p] = loaded[p] /\ file = file0[p]
            /\ InvalidTaskId \in {out[p][i] : i \in 1..Len(out[p])}
                   \/ InvalidId \in {err[p][i] : i \in 1..Len(err[p])}
            /\ code[p] = 0

\* C2 amended: complete/remove with an id of 0 or above the length leaves the
\* list unchanged, prints "Invalid task ID." and ends with exit code 0; a
\* negative number is no id at all: the list is unchanged too, but the
\* message goes to the error stream, not to standard output, and the exit
\* code is not 0.
C2_Amended ==
    \A p \in Procs :
        /\ RanById(p) /\ OutOfRange(p) =>
               /\ Untouched(p)
               /\ out[p] = <<Header, InvalidTaskId, Closing>>
               /\ err[p] = << >> /\ code[p] = 0
        /\ RanById(p) /\ IsNegative(argv[p].text) =>
               /\ Untouched(p)
               /\ out[p] = <<Header>>
               /\ err[p] # << >> /\ code[p] # 0

\* id 0 on a list that is not empty
C2_Witness ==
    \E p \in Procs :
        RanById(p) /\ OutOfRange(p) /\ IdGiven(p) = 0 /\ loaded[p] # << >> /\ code[p] = 0

\* C3: for complete/remove, an id that parses but is out of range ends with
\* exit code 0 and only a message on standard output; an id that does not
\* parse ends with a nonzero exit code and a diagnostic on the error stream;
\* either way the store is what it was before the invocation.
C3_ExitCodeAsymmetry ==
    \A p \in Procs :
        /\ RanById(p) /\ OutOfRange(p) =>
               /\ code[p] = 0 /\ err[p] = << >>
               /\ out[p] = <<Header, InvalidTaskId, Closing>>
               /\ file = file0[p]
        /\ RanById(p) /\ ~IsUnsigned(argv[p].text) =>
               /\ code[p] # 0 /\ err[p] = <<InvalidId>>
               /\ out[p] = <<Header>>
               /\ file = file0[p]

\* a word as the id of a list that is not empty
C3_Witness ==
    \E p \in Procs :
        RanById(p) /\ argv[p].text = <<"x">> /\ loaded[p] # << >> /\ code[p] = 1

C5_AddAppends ==
    \A p \in Procs :
        Ran(p, "add") =>
            /\ Len(tasks[p]) = Len(loaded[p]) + 1
            /\ SubSeq(tasks[p], 1, Len(loaded[p])) = loaded[p]
            /\ tasks[p][Len(tasks[p])] = Task(argv[p].text, FALSE)
            /\ wrote[p] = "ok" =>
                   /\ load_tasks(file) = tasks[p]
                   /\ out[p] = <<Header, Added(argv[p].text), Closing>>

\* a description added a second time, one that needs escaping in the store
C5_Witness ==
    \E p \in Procs :
        /\ Ran(p, "add") /\ wrote[p] = "ok"
        /\ argv[p].text = <<DQ, BS>>
        /\ \E i \in 1..Len(loaded[p]) : loaded[p][i].description = argv[p].text

\* The positions of ts a filter value selects, and the k-th of them.
Selected(ts, hasFilter, filter) ==
    {i \in 1..Len(ts) :
        /\ (hasFilter /\ filter = "pending") => ~ts[i].completed
        /\ (hasFilter /\ filter = "completed") => ts[i].completed}
Kth(S, k) == CHOOSE i \in S : Cardinality({j \in S : j < i}) = k - 1

\* C6: list(filter) prints, in store order and numbered from 1 without gaps,
\* exactly the pending tasks for "pending", exactly the completed ones for
\* "completed" and all tasks for any other or no filter; it prints
\* "No tasks found." exactly when there is none to print; it changes neither
\* the list in memory nor the file.
C6_ListView ==
    \A p \in Procs :
        Ran(p, "list") =>
            LET S == Selected(loaded[p], argv[p].hasFilter, argv[p].filter)
                view == SubSeq(out[p], 2, Len(out[p]) - 1)
            IN  /\ out[p][1] = Header /\ out[p][Len(out[p])] = Closing
                /\ (view = <<NoTasksFound>>) <=> (S = {})
                /\ S # {} =>
                       /\ Len(view) = Cardinality(S)
                       /\ \A k \in 1..Len(view) : view[k] = Listed(k, loaded[p][Kth(S, k)])
                /\ Untouched(p)
                /\ code[p] = 0 /\ err[p] = << >>

\* the completed tasks of a list whose first task is pending
C6_Witness ==
    \E p \in Procs :
        /\ Ran(p, "list") /\ argv[p].hasFilter /\ argv[p].filter = "completed"
        /\ Len(loaded[p]) > 1 /\ ~loaded[p][1].completed /\ loaded[p][2].completed
        /\ out[p] = <<Header, Listed(1, loaded[p][2]), Closing>>

\* C7: with invocations one after the other, after a mutating invocation that
\* succeeded the file holds exactly its list, and the next invocation loads
\* that list: same order, descriptions and flags.
C7_RoundTrip ==
    /\ \A p \in Procs :
           pc[p] = "done" /\ wrote[p] = "ok" =>
               /\ file = FileOf(to_string_pretty(tasks[p]))
               /\ load_tasks(file) = tasks[p]
               /\ code[p] = 0
    /\ \A p \in Procs :
           pc[p] = "loaded" /\ lastSaved.ok => loaded[p] = lastSaved.tasks

\* an invocation that has loaded the list another one saved, with a
\* description that needs escaping in it
C7_Witness ==
    \E p \in Procs :
        /\ pc[p] = "loaded" /\ lastSaved.ok /\ lastSaved.by # p
        /\ Len(loaded[p]) = MaxLen
        /\ \E i \in 1..Len(loaded[p]) : loaded[p][i].description = <<DQ, BS>>

\* What an operation is to make of the list l.
Expected(a, l) ==
    CASE a.cmd = "add" -> Append(l, Task(a.text, FALSE))
      [] a.cmd = "complete" -> [i \in 1..Len(l) |->
             IF i = Magnitude(a.text) THEN Task(l[i].description, TRUE) ELSE l[i]]
      [] a.cmd = "remove" -> [i \in 1..(Len(l) - 1) |->
             IF i < Magnitude(a.text) THEN l[i] ELSE l[i + 1]]
      [] OTHER -> l

\* C8: when two invocations have both loaded the store before either saves,
\* the file ends up as the list of the one that saves last, made from the
\* store as it was before the other saved: the other's change is not in it,
\* and neither invocation reports anything.
C8_LastWriterWins ==
    \A p \in Procs : \A q \in Procs \ {p} :
        (/\ pc[p] = "done" /\ wrote[p] = "ok"
         /\ pc[q] = "done" /\ wrote[q] = "ok"
         /\ overlapped[p]) =>
            /\ lastSaved.by = p
            /\ file = FileOf(to_string_pretty(tasks[p]))
            /\ file0[p] = file0[q]
            /\ load_tasks(file) = Expected(argv[p], load_tasks(file0[q]))
            /\ code[p] = 0 /\ err[p] = << >> /\ out[p][Len(out[p])] = Closing
            /\ code[q] = 0 /\ err[q] = << >> /\ out[q][Len(out[q])] = Closing

\* two overlapping adds: the first one's task was confirmed and is not in the store
C8_Witness ==
    \E p \in Procs : \E q \in Procs \ {p} :
        /\ Ran(p, "add") /\ wrote[p] = "ok" /\ overlapped[p]
        /\ Ran(q, "add") /\ wrote[q] = "ok"
        /\ argv[p].text # argv[q].text
        /\ out[q] = <<Header, Added(argv[q].text), Closing>>
        /\ Len(load_tasks(file)) = Len(load_tasks(file0[q])) + 1
        /\ \A i \in 1..Len(load_tasks(file)) : load_tasks(file)[i].description # argv[q].text

\* C9: load() gives the empty list when the store file is absent and when its
\* content does not parse, with no message and no failing exit; list then
\* prints "No tasks found." and leaves the file as it was.
C9_SilentFallback ==
    \A p \in Procs :
        pc[p] # "idle" /\ (~file0[p].exists \/ Unreadable(file0[p])) =>
            /\ loaded[p] = << >>
            /\ pc[p] = "loaded" => out[p] = <<Header>> /\ err[p] = << >>
            /\ Ran(p, "list") =>
                   /\ out[p] = <<Header, NoTasksFound, Closing>>
                   /\ err[p] = << >> /\ code[p] = 0
                   /\ file = file0[p]

\* a list of a store that holds an array, but not one of tasks
C9_Witness ==
    \E p \in Procs :
        /\ Ran(p, "list") /\ Unreadable(file0[p])
        /\ Len(file0[p].content) > 2
        /\ file0[p].content[Len(file0[p].content)] = RBracket

\* C10: on a store file that exists and does not parse, a successful add
\* leaves a store of exactly the one new, pending task, the old content gone;
\* complete(id) and remove(id) take the invalid-id path for every id and leave
\* the file as it is.
C10_MalformedStore ==
    \A p \in Procs :
        pc[p] = "done" /\ Unreadable(file0[p]) =>
            /\ Ran(p, "add") /\ wrote[p] = "ok" =>
                   /\ file = FileOf(to_string_pretty(<<Task(argv[p].text, FALSE)>>))
                   /\ load_tasks(file) = <<Task(argv[p].text, FALSE)>>
                   /\ file # file0[p]
            /\ RanById(p) /\ IsUnsigned(argv[p].text) =>
                   /\ out[p] = <<Header, InvalidTaskId, Closing>>
                   /\ Untouched(p) /\ file.content = file0[p].content
                   /\ code[p] = 0

\* a successful add on a malformed store of more than two tokens
C10_Witness ==
    \E p \in Procs :
        /\ Ran(p, "add") /\ wrote[p] = "ok"
        /\ Unreadable(file0[p]) /\ Len(file0[p].content) > 2

====
